---------------------------- MODULE Spec2Model ----------------------------
(***************************************************************************)
(* EmulatorBackend of emaui1.0.py (load_rom, apply_personalization,        *)
(* start_emulation, stop_emulation) and the personalization check boxes of *)
(* EMUaiMainWindow, over a file system of byte images and a table of the   *)
(* emulator subprocesses that were launched.                               *)
(*                                                                         *)
(* An offset or a length is a pair <<hi, lo>> standing for hi * 65536 + lo *)
(* (0 <= lo < 65536): timer_offset, 0x8033B17E, does not fit the 32-bit    *)
(* integers of the model checker, Python's integers are unbounded.         *)
(* A file is [len, fill, data]: the byte at offset o < len is data[o] when *)
(* o is in DOMAIN data and fill otherwise.                                 *)
(*                                                                         *)
(* The menu and button handlers of the window call the backend methods one *)
(* at a time on the GUI thread (openFileDialog is load_rom, the browser's  *)
(* double click is load_rom followed by start_emulation), so the actions   *)
(* are the backend methods and the two check-box handlers that reach them. *)
(* sixty_fps only adds two placeholder arguments to the command line and   *)
(* is left out; the command line is represented by its last argument.      *)
(* An exception that leaves toggle_personalization reaches PyQt, which     *)
(* prints it and, from version 5.5 on, aborts the program: the fields      *)
(* assigned before it stay assigned, and a behaviour may end in any state. *)
(***************************************************************************)
EXTENDS Integers, Sequences, FiniteSets, TLC

VARIABLES
    rom_loaded,               \* EmulatorBackend.rom_loaded
    rom_path,                 \* EmulatorBackend.rom_path (NoPath is None)
    temp_rom_path,            \* EmulatorBackend.temp_rom_path (NoPath is None)
    emulation_process,        \* EmulatorBackend.emulation_process: index in procs, 0 is None
    is_sm64,                  \* EmulatorBackend.is_sm64
    personalization_ai,       \* EmulatorBackend.personalization_ai
    vibes_on,                 \* EmulatorBackend.vibes_on
    personalization_checkbox, \* EMUaiMainWindow.personalization_checkbox.isChecked()
    disk,                     \* the file system: path -> file, for the paths that exist
    procs,                    \* the subprocesses Popen created, in launch order
    last,                     \* the call that led to this state and how it ended
    loaded,                   \* the paths passed to load_rom at which it opened a file
    written,                  \* the paths apply_personalization wrote
    patch_io,                 \* the last image apply_personalization read and wrote
    phase                     \* progress through patched load, start, stop

vars == <<rom_loaded, rom_path, temp_rom_path, emulation_process, is_sm64,
          personalization_ai, vibes_on, personalization_checkbox, disk, procs,
          last, loaded, written, patch_io, phase>>

-----------------------------------------------------------------------------
(* Bounds of the model *)

\* the longest chain of ".personalized" suffixes a path of the model carries
MaxSuffix == 2
\* the number of subprocesses start_emulation may launch in a behaviour
MaxProcs == 2

-----------------------------------------------------------------------------
(* Offsets *)

Off(hi, lo) == <<hi, lo>>
OffLt(a, b) == a[1] < b[1] \/ (a[1] = b[1] /\ a[2] < b[2])
\* o + n, for the small n and the o of this program, whose low part never carries
OffAdd(o, n) == <<o[1], o[2] + n>>
\* o - 1, for o > 0
OffPred(o) == IF o[2] > 0 THEN <<o[1], o[2] - 1>> ELSE <<o[1] - 1, 65535>>

-----------------------------------------------------------------------------
(* Program constants *)

MagicLen == 4
TitleOffset == 32
TitleLen == 20
AnomalyCount == 10
TimerByte == 2
ColorLen == 100
valid_magics_z64_only == {<<128, 55, 18, 64>>}
valid_magics == {<<128, 55, 18, 64>>, <<55, 128, 64, 18>>, <<64, 18, 55, 128>>}
\* "SUPER MARIO 64"
SM64Title == <<83, 85, 80, 69, 82, 32, 77, 65, 82, 73, 79, 32, 54, 52>>
header_end == Off(0, 4096)
timer_offset == Off(32819, 45438)
color_offset == Off(18, 0)

-----------------------------------------------------------------------------
(* Paths and files *)

Bases == {"a"}
Paths == [base : Bases, k : 0..MaxSuffix]
NoPath == [base |-> "", k |-> 0]
P(b) == [base |-> b, k |-> 0]
\* rom_path + ".personalized"
PersonalizedInPlace(path) == path
Personalized(path) == [path EXCEPT !.k = @ + 1]

ByteAt(f, o) == IF o \in DOMAIN f.data THEN f.data[o] ELSE f.fill

\* f.seek(pos); f.read(n), for pos + n < 65536: the bytes that exist in the window
Avail(f, pos, n) ==
    IF f.len[1] > 0 THEN n
    ELSE IF f.len[2] <= pos THEN 0
    ELSE IF f.len[2] - pos < n THEN f.len[2] - pos ELSE n
ReadAt(f, pos, n) == [i \in 1..Avail(f, pos, n) |-> ByteAt(f, Off(0, pos + i - 1))]

\* bytes.decode('ascii', errors='ignore'): the bytes above 127 are dropped
RECURSIVE DecodeAsciiIgnore(_)
DecodeAsciiIgnore(bs) ==
    IF bs = <<>> THEN <<>>
    ELSE IF Head(bs) < 128 THEN <<Head(bs)>> \o DecodeAsciiIgnore(Tail(bs))
    ELSE DecodeAsciiIgnore(Tail(bs))

\* str.isspace() on an ASCII character
IsSpace(c) == c \in {9, 10, 11, 12, 13, 28, 29, 30, 31, 32}
RECURSIVE LStrip(_)
LStrip(s) == IF s # <<>> /\ IsSpace(Head(s)) THEN LStrip(Tail(s)) ELSE s
RECURSIVE RStrip(_)
RStrip(s) ==
    IF s # <<>> /\ IsSpace(s[Len(s)]) THEN RStrip(SubSeq(s, 1, Len(s) - 1)) ELSE s
\* str.strip()
Strip(s) == RStrip(LStrip(s))

InternalName(f) == Strip(DecodeAsciiIgnore(ReadAt(f, TitleOffset, TitleLen)))
Magic(f) == ReadAt(f, 0, MagicLen)


-----------------------------------------------------------------------------
(* apply_personalization *)

Put(d, o, v) == [x \in DOMAIN d \cup {o} |-> IF x = o THEN v ELSE d[x]]

\* random.randint(a, b) over offsets, sampled at the two ends of [a, b]; the empty
\* set when a > b, where randint raises ValueError
RandOffsetsFromZero(a, b) == IF OffLt(b, Off(0, 0)) THEN {} ELSE {Off(0, 0), b}
RandOffsets(a, b) == IF OffLt(b, a) THEN {} ELSE {a, b}
\* random.randint(0, 255), sampled
RandBytes == {255}

\* for _ in range(n): rom_data[randint(0x1000, len - 1)] = randint(0, 255);
\* rs is the set of [data, touched] the loop can have produced so far
RECURSIVE Anomalies(_, _, _)
Anomalies(rs, offs, n) ==
    IF n = 0 THEN rs
    ELSE Anomalies({[data |-> Put(r.data, o, v), touched |-> r.touched \cup {o}] :
                        r \in rs, o \in offs, v \in RandBytes}, offs, n - 1)

\* if len(rom_data) > timer_offset + 1: rom_data[timer_offset] = 0x02
TimerPatch(r, len) ==
    IF OffLt(OffAdd(timer_offset, 1), len)
    THEN [data |-> Put(r.data, timer_offset, TimerByte),
          touched |-> r.touched \cup {timer_offset}]
    ELSE r

\* for i in range(100): if len(rom_data) > color_offset + i: rom_data[color_offset + i] //= 2
Darken(r, len, fill) ==
    LET win == {o \in {OffAdd(color_offset, i) : i \in 0..(ColorLen - 1)} : OffLt(o, len)}
    IN  [data |-> [x \in DOMAIN r.data \cup win |->
                      IF x \in win
                      THEN (IF x \in DOMAIN r.data THEN r.data[x] ELSE fill) \div 2
                      ELSE r.data[x]],
         touched |-> r.touched \cup win]

\* the vibes step: torch's untrained layer on a random input classifies "eerie" or
\* "fun"; only "eerie" patches
VibePatches(r, len, fill, vibes) ==
    IF vibes THEN {Darken(r, len, fill), r} ELSE {r}

\* The outcomes of apply_personalization() with self.rom_path = rp on file system
\* dsk: raised says an exception left the method, after temp_rom_path was assigned.
apply_personalization(rp, vibes, dsk) ==
    LET temp == Personalized(rp)
        failed == [raised |-> TRUE, temp_rom_path |-> temp, rom_path |-> rp,
                   disk |-> dsk, io |-> <<>>]
    IN  IF rp \notin DOMAIN dsk THEN {failed}
        ELSE
          LET rom == dsk[rp]
              offs == RandOffsets(header_end, OffPred(rom.len))
          IN  IF offs = {} THEN {failed}
              ELSE
                LET start == {[data |-> rom.data, touched |-> {}]}
                    outs == UNION {VibePatches(TimerPatch(r, rom.len), rom.len, rom.fill, vibes) :
                                      r \in Anomalies(start, offs, AnomalyCount)}
                IN  {[raised |-> FALSE, temp_rom_path |-> temp, rom_path |-> temp,
                      disk |-> [q \in DOMAIN dsk \cup {temp} |->
                                   IF q = temp
                                   THEN [len |-> rom.len, fill |-> rom.fill, data |-> r.data]
                                   ELSE dsk[q]],
                      io |-> <<[src |-> rp, dst |-> temp, in |-> rom,
                                out |-> [len |-> rom.len, fill |-> rom.fill, data |-> r.data],
                                touched |-> r.touched]>>] : r \in outs}

-----------------------------------------------------------------------------
(* The images on disk when the program starts *)

Spaces(n) == [i \in 1..n |-> 32]

\* an image of length len that starts with magic, holds title at offset 0x20 and
\* fill everywhere else
Image(len, magic, title, fill) ==
    LET at == [o \in {Off(0, i - 1) : i \in 1..Len(magic)}
                     \cup {Off(0, TitleOffset + i - 1) : i \in 1..Len(title)} |->
                  IF o[2] < TitleOffset THEN magic[o[2] + 1]
                  ELSE title[o[2] - TitleOffset + 1]]
        inside == {o \in DOMAIN at : OffLt(o, len)}
    IN  [len |-> len, fill |-> fill, data |-> [o \in inside |-> at[o]]]

Z64 == <<128, 55, 18, 64>>
V64 == <<55, 128, 64, 18>>
N64 == <<64, 18, 55, 128>>
SM64Padded == SM64Title \o Spaces(6)
\* "ZELDA MAJORA'S MASK "
OtherTitle == <<90, 69, 76, 68, 65, 32, 77, 65, 74, 79, 82, 65, 39, 83, 32, 77, 65, 83, 75, 32>>

\* the images path "a" may hold when the program starts
TestImages ==
    { Image(Off(0, 0), <<>>, <<>>, 0),                      \* empty
      Image(Off(0, 3), <<128, 55, 18>>, <<>>, 0),           \* 3 bytes of a magic
      Image(Off(0, 4), Z64, <<>>, 0),                       \* a magic and nothing else
      Image(Off(0, 40), V64, SM64Title, 0),                 \* title window cut at 8 bytes
      Image(Off(0, 46), N64, SM64Title, 0),                 \* title window cut at 14 bytes
      Image(Off(0, 51), Z64, OtherTitle, 0),                \* one byte short of the window
      Image(Off(0, 52), V64, SM64Padded, 0),                \* header only
      Image(Off(0, 52), <<18, 64, 128, 55>>, SM64Padded, 0),\* an unrecognised byte order
      Image(Off(0, 64), <<128, 55, 18, 65>>, SM64Padded, 0),\* last magic byte off by one
      Image(Off(0, 4096), Z64, SM64Padded, 200),            \* exactly 0x1000 bytes
      Image(Off(0, 4097), N64, SM64Padded, 200),            \* 0x1000 + 1 bytes
      Image(Off(0, 4097), Z64, Spaces(2) \o SM64Title \o <<9, 10, 13, 32>>, 200),
      Image(Off(0, 4097), Z64, <<200>> \o SM64Title \o <<255>> \o Spaces(4), 200),
      Image(Off(0, 4097), Z64, OtherTitle, 200),            \* another game
      Image(Off(18, 2), V64, SM64Padded, 200),              \* 2 bytes of the colour window
      Image(Off(32819, 45440), Z64, SM64Padded, 200) }      \* past timer_offset + 1

\* the images path "a" may hold in the behaviours of Spec
StartImages ==
    { Image(Off(0, 4097), Z64, SM64Padded, 200),
      Image(Off(0, 52), V64, SM64Padded, 0) }

-----------------------------------------------------------------------------
(* The state after EmulatorBackend() and EMUaiMainWindow(backend) *)

Call(op, arg, ret, raised, applied, launched) ==
    [op |-> op, arg |-> arg, ret |-> ret, raised |-> raised,
     applied |-> applied, launched |-> launched]

Init ==
    /\ rom_loaded = FALSE
    /\ rom_path = NoPath
    /\ temp_rom_path = NoPath
    /\ emulation_process = 0
    /\ is_sm64 = FALSE
    /\ personalization_ai = FALSE
    /\ vibes_on = TRUE
    /\ personalization_checkbox = TRUE
    /\ \E img \in StartImages : disk = [q \in {P("a")} |-> img]
    /\ procs = <<>>
    /\ last = Call("init", NoPath, TRUE, FALSE, FALSE, FALSE)
    /\ loaded = {}
    /\ written = {}
    /\ patch_io = <<>>
    /\ phase = 0

-----------------------------------------------------------------------------
(* EmulatorBackend.load_rom(filepath) *)

backend == <<rom_loaded, rom_path, temp_rom_path, emulation_process, is_sm64,
             personalization_ai, vibes_on>>

\* return False with nothing assigned: open() raised and the except clause caught
\* it, or the magic is not in valid_magics
LoadRejected(filepath) ==
    /\ last' = Call("load_rom", filepath, FALSE, FALSE, FALSE, FALSE)
    /\ phase' = 0
    /\ patch_io' = <<>>
    /\ UNCHANGED <<backend, personalization_checkbox, disk, procs, written>>

LoadRom(filepath) ==
    /\ loaded' = IF filepath \in DOMAIN disk THEN loaded \cup {filepath} ELSE loaded
    /\ IF filepath \notin DOMAIN disk THEN LoadRejected(filepath)
       ELSE LET f == disk[filepath]
                sm == InternalName(f) = SM64Title
            IN  IF Magic(f) \notin valid_magics THEN LoadRejected(filepath)
                ELSE
                  /\ is_sm64' = sm
                  /\ rom_loaded' = TRUE
                  /\ UNCHANGED <<emulation_process, personalization_ai, vibes_on,
                                 personalization_checkbox, procs>>
                  /\ IF personalization_ai /\ sm
                     THEN /\ filepath.k < MaxSuffix
                          /\ \E r \in apply_personalization(filepath, vibes_on, disk) :
                               /\ rom_path' = r.rom_path
                               /\ temp_rom_path' = r.temp_rom_path
                               /\ disk' = r.disk
                               /\ patch_io' = r.io
                               /\ written' = IF r.raised THEN written
                                             ELSE written \cup {r.temp_rom_path}
                               \* an exception of apply_personalization is caught by
                               \* load_rom's except clause: return False
                               /\ last' = Call("load_rom", filepath, ~r.raised, FALSE,
                                               TRUE, FALSE)
                               /\ phase' = IF r.raised THEN 0 ELSE 1
                     ELSE /\ rom_path' = filepath
                          /\ last' = Call("load_rom", filepath, TRUE, FALSE, FALSE, FALSE)
                          /\ phase' = 0
                          /\ patch_io' = <<>>
                          /\ UNCHANGED <<temp_rom_path, disk, written>>

-----------------------------------------------------------------------------
(* EMUaiMainWindow.toggle_personalization(state), toggle_vibes(state) *)

\* a click on the check box: stateChanged carries the new state
TogglePersonalization ==
    LET state == ~personalization_checkbox
    IN  /\ personalization_checkbox' = state
        /\ personalization_ai' = state
        /\ phase' = 0
        /\ UNCHANGED <<rom_loaded, emulation_process, is_sm64, vibes_on, procs, loaded>>
        /\ IF rom_loaded /\ is_sm64
           THEN /\ rom_path.k < MaxSuffix
                /\ \E r \in apply_personalization(rom_path, vibes_on, disk) :
                     /\ rom_path' = r.rom_path
                     /\ temp_rom_path' = r.temp_rom_path
                     /\ disk' = r.disk
                     /\ patch_io' = r.io
                     /\ written' = IF r.raised THEN written
                                   ELSE written \cup {r.temp_rom_path}
                     /\ last' = Call("toggle_personalization", NoPath, TRUE, r.raised,
                                     TRUE, FALSE)
           ELSE /\ last' = Call("toggle_personalization", NoPath, TRUE, FALSE, FALSE, FALSE)
                /\ patch_io' = <<>>
                /\ UNCHANGED <<rom_path, temp_rom_path, disk, written>>

ToggleVibes ==
    /\ vibes_on' = ~vibes_on
    /\ last' = Call("toggle_vibes", NoPath, TRUE, FALSE, FALSE, FALSE)
    /\ phase' = 0
    /\ patch_io' = <<>>
    /\ UNCHANGED <<rom_loaded, rom_path, temp_rom_path, emulation_process, is_sm64,
                   personalization_ai, personalization_checkbox, disk, procs, loaded,
                   written>>

-----------------------------------------------------------------------------
(* EmulatorBackend.start_emulation, stop_emulation *)

\* found: whether mupen64plus is on the search path (Popen raises FileNotFoundError
\* when it is not); the subprocess is launched with rom_path as its last argument
StartEmulation ==
    /\ patch_io' = <<>>
    /\ UNCHANGED <<rom_loaded, rom_path, temp_rom_path, is_sm64, personalization_ai,
                   vibes_on, personalization_checkbox, disk, loaded, written>>
    /\ IF ~rom_loaded
       THEN /\ last' = Call("start_emulation", NoPath, TRUE, FALSE, FALSE, FALSE)
            /\ phase' = 0
            /\ UNCHANGED <<emulation_process, procs>>
       ELSE \E found \in BOOLEAN :
              IF found
              THEN /\ Len(procs) < MaxProcs
                   /\ procs' = Append(procs, "running")
                   /\ emulation_process' = Len(procs) + 1
                   /\ last' = Call("start_emulation", rom_path, TRUE, FALSE, FALSE, TRUE)
                   /\ phase' = IF phase = 1 THEN 2 ELSE 0
              ELSE /\ last' = Call("start_emulation", rom_path, TRUE, FALSE, FALSE, FALSE)
                   /\ phase' = 0
                   /\ UNCHANGED <<emulation_process, procs>>

\* if self.temp_rom_path and os.path.exists(self.temp_rom_path): os.remove(...)
KeepTemp(dsk, temp) == dsk
RemoveTemp(dsk, temp) ==
    IF temp # NoPath /\ temp \in DOMAIN dsk
    THEN [q \in DOMAIN dsk \ {temp} |-> dsk[q]]
    ELSE dsk

StopEmulation ==
    /\ patch_io' = <<>>
    /\ last' = Call("stop_emulation", NoPath, TRUE, FALSE, FALSE, FALSE)
    /\ UNCHANGED <<rom_loaded, rom_path, temp_rom_path, is_sm64, personalization_ai,
                   vibes_on, personalization_checkbox, loaded, written>>
    /\ IF ~rom_loaded
       THEN /\ phase' = 0
            /\ UNCHANGED <<emulation_process, procs, disk>>
       ELSE /\ procs' = IF emulation_process # 0
                        THEN [procs EXCEPT ![emulation_process] = "terminated"]
                        ELSE procs
            /\ emulation_process' = 0
            /\ disk' = RemoveTemp(disk, temp_rom_path)
            /\ phase' = IF phase = 2 THEN 3 ELSE 0

-----------------------------------------------------------------------------

Next ==
    \/ \E filepath \in Paths : LoadRom(filepath)
    \/ TogglePersonalization
    \/ ToggleVibes
    \/ StartEmulation
    \/ StopEmulation

Spec == Init /\ [][Next]_vars

\* the states the window can be in before any image is loaded: the check boxes
\* clicked any number of times (personalization_ai is False until the first click
\* and follows the check box from then on)
InitImages ==
    /\ rom_loaded = FALSE
    /\ rom_path = NoPath
    /\ temp_rom_path = NoPath
    /\ emulation_process = 0
    /\ is_sm64 = FALSE
    /\ personalization_checkbox \in BOOLEAN
    /\ personalization_ai \in {FALSE, personalization_checkbox}
    /\ vibes_on \in BOOLEAN
    /\ \E img \in TestImages : disk = [q \in {P("a")} |-> img]
    /\ procs = <<>>
    /\ last = Call("init", NoPath, TRUE, FALSE, FALSE, FALSE)
    /\ loaded = {}
    /\ written = {}
    /\ patch_io = <<>>
    /\ phase = 0

NextImages == \E filepath \in Paths : LoadRom(filepath)

SpecImages == InitImages /\ [][NextImages]_vars

-----------------------------------------------------------------------------
(* The claims *)

\* the three magic permutations 80 37 12 40, 37 80 40 12, 40 12 37 80
ClaimMagics == {<<128, 55, 18, 64>>, <<55, 128, 64, 18>>, <<64, 18, 55, 128>>}

\* a step that is a call load_rom(last'.arg) on a file that exists
LoadStep == last'.op = "load_rom" /\ last'.arg \in DOMAIN disk

\* C1: load_rom returns True and sets rom_loaded if and only if the first 4 bytes
\* of the file are one of the three magic permutations; every other readable file
\* is rejected with False, and no exception escapes.
C1_AcceptsIffMagic ==
    [][LoadStep =>
          /\ ~last'.raised
          /\ (last'.ret /\ rom_loaded') <=> (ReadAt(disk[last'.arg], 0, 4) \in ClaimMagics)]_vars

\* C2 as stated: every file shorter than 52 bytes is rejected by load_rom (False,
\* rom_loaded and rom_path not updated, nothing raised), whatever its first 4 bytes.
C2_ShortFileRejected ==
    [][(LoadStep /\ OffLt(disk[last'.arg].len, Off(0, 52))) =>
          /\ ~last'.raised
          /\ ~last'.ret
          /\ rom_loaded' = rom_loaded
          /\ rom_path' = rom_path]_vars

\* C2 amended: on a file shorter than 52 bytes load_rom never raises; it rejects
\* the file (False, rom_loaded and rom_path not updated) when its first 4 bytes are
\* not a magic permutation, and when they are it accepts the file whatever its
\* length: rom_loaded is set and rom_path is the file.
C2_ShortFileDecidedByMagic ==
    [][(LoadStep /\ OffLt(disk[last'.arg].len, Off(0, 52))) =>
          /\ ~last'.raised
          /\ ReadAt(disk[last'.arg], 0, 4) \notin ClaimMagics =>
                ~last'.ret /\ rom_loaded' = rom_loaded /\ rom_path' = rom_path
          /\ ReadAt(disk[last'.arg], 0, 4) \in ClaimMagics =>
                rom_loaded' /\ rom_path' = last'.arg]_vars

\* C2 witness: load_rom has accepted a file shorter than 52 bytes
C2_ShortFileAccepted ==
    /\ last.op = "load_rom"
    /\ last.ret
    /\ rom_loaded
    /\ rom_path = last.arg
    /\ last.arg \in DOMAIN disk
    /\ OffLt(disk[last.arg].len, Off(0, 52))

\* C3: for an input image longer than 0x1000 bytes, the file apply_personalization
\* writes has the length of the file it read, equals it at every offset below
\* 0x1000, and differs from it only at offsets the patch touched.
C3_PatchKeepsLengthAndHeader ==
    \A n \in DOMAIN patch_io :
        LET io == patch_io[n]
            out == disk[io.dst]
        IN  OffLt(Off(0, 4096), io.in.len) =>
              /\ io.dst \in DOMAIN disk
              /\ out.len = io.in.len
              /\ \A lo \in 0..4095 : ByteAt(out, Off(0, lo)) = ByteAt(io.in, Off(0, lo))
              /\ out.fill = io.in.fill
              /\ \A o \in (DOMAIN out.data \cup DOMAIN io.in.data) \ io.touched :
                    ByteAt(out, o) = ByteAt(io.in, o)

\* C3 witness: a patch of an image longer than 0x1000 bytes has changed a byte
C3_PatchChangedAByte ==
    /\ patch_io # <<>>
    /\ OffLt(Off(0, 4096), patch_io[1].in.len)
    /\ \E o \in patch_io[1].touched :
          ByteAt(disk[patch_io[1].dst], o) # ByteAt(patch_io[1].in, o)

\* C4 as stated: the backend writes only to a derived path that differs from the
\* path it read, and no file at a path that was passed to load_rom is ever
\* overwritten or deleted by the backend.
C4_LoadedPathsNeverTouched ==
    [][/\ patch_io' # <<>> => patch_io'[1].dst # patch_io'[1].src
       /\ \A q \in loaded \cap DOMAIN disk : q \in DOMAIN disk' /\ disk'[q] = disk[q]]_vars

\* C4 amended: the backend writes only to the path it read + ".personalized", which
\* differs from the path it read; the file it read is left as it was; and a file is
\* overwritten or deleted only at a path that ends in ".personalized" (so a path
\* passed to load_rom is overwritten or deleted only when it is itself such a path).
C4_OnlyDerivedPathsChange ==
    [][/\ patch_io' # <<>> =>
             /\ patch_io'[1].dst # patch_io'[1].src
             /\ patch_io'[1].src \in DOMAIN disk'
             /\ disk'[patch_io'[1].src] = patch_io'[1].in
       /\ \A q \in written' : q.k > 0
       /\ \A q \in DOMAIN disk :
             (q \notin DOMAIN disk' \/ disk'[q] # disk[q]) => q.k > 0]_vars

\* C4 witness: an image was loaded, patched and the patched copy removed by
\* stop_emulation, and the image that was loaded is still on disk
C4_PatchedAndStopped ==
    /\ last.op = "stop_emulation"
    /\ written # {}
    /\ written \cap DOMAIN disk = {}
    /\ P("a") \in loaded \cap DOMAIN disk

\* C5: whenever load_rom returns False, rom_loaded, rom_path, temp_rom_path and
\* is_sm64 have the values they had before the call.
C5_FailedLoadChangesNothing ==
    [][(last'.op = "load_rom" /\ ~last'.ret) =>
          /\ rom_loaded' = rom_loaded
          /\ rom_path' = rom_path
          /\ temp_rom_path' = temp_rom_path
          /\ is_sm64' = is_sm64]_vars

\* C6: after a load_rom that applied the patch and returned True, a start_emulation
\* that launched the emulator and a stop_emulation, no file exists at temp_rom_path.
C6_TempGoneAfterStop ==
    phase = 3 => temp_rom_path # NoPath /\ temp_rom_path \notin DOMAIN disk

\* C6 witness: such a sequence has ended, and temp_rom_path is a file the backend wrote
C6_PatchedLoadStartStop ==
    phase = 3 /\ last.op = "stop_emulation" /\ temp_rom_path \in written

\* C7: after stop_emulation returns, no file that apply_personalization wrote
\* remains on disk.
C7_NoArtifactAfterStop ==
    last.op = "stop_emulation" => written \cap DOMAIN disk = {}

\* C8: after stop_emulation returns, no subprocess launched by an earlier
\* start_emulation is running without having been sent terminate.
C8_NoOrphanAfterStop ==
    last.op = "stop_emulation" => \A i \in DOMAIN procs : procs[i] # "running"

\* C9: whenever start_emulation launches the emulator, the path it passes as the
\* final argument names a file that exists.
C9_LaunchedImageExists ==
    (last.op = "start_emulation" /\ last.launched) => last.arg \in DOMAIN disk

\* C10: a patched image is produced only while personalization is enabled: every
\* invocation of apply_personalization that writes one happens with
\* personalization_ai true and is_sm64 true.
C10_PatchOnlyWhenEnabled ==
    (last.applied /\ patch_io # <<>>) => personalization_ai /\ is_sm64

=============================================================================
